---- MODULE Spec2Model ----
(***************************************************************************)
(* Model of the mnemonic module of tiny-bip39 (src/src/mnemonic.rs):       *)
(* Mnemonic::new, from_string, validate, to_entropy and to_entropy_hex,    *)
(* with the collaborators they call (KeyType, Language, crypto, util and   *)
(* the bit reader / bit vector / hex crates).                              *)
(*                                                                         *)
(* Data representation                                                     *)
(*   byte        an integer in 0..255; Vec<u8> is a sequence of bytes      *)
(*   BitVec      a sequence of bits, each 0 or 1, most significant first   *)
(*   String      a sequence of items; an item is a pair <<kind, n>>:       *)
(*                 <<"English", n>>  the n-th word of the English list     *)
(*                 <<"unlisted", n>> a run of non-blank characters that is *)
(*                                   in no word list                       *)
(*                 <<"char", c>>     the single character of code c: 32 is *)
(*                                   the space, 9 the tab, 10 the newline  *)
(*               two word items are never adjacent: a word item stands for *)
(*               a maximal run of non-blank characters.                    *)
(*   Result      [tag |-> "Ok", val |-> v], [tag |-> "Err", val |-> kind]  *)
(*               or, for a panic, [tag |-> "Panic", val |-> message]       *)
(*   32-bit word a pair <<hi, lo>> of 16-bit halves (sha256 only)          *)
(***************************************************************************)
EXTENDS Integers, Sequences, FiniteSets, TLC

VARIABLES
    op,        \* the last call made: "none", "new", "from_string", "validate",
               \* "to_entropy" or "to_entropy_hex"
    arg,       \* the arguments of that call
    ret,       \* what it returned
    calls,     \* how often it called sha256, pbkdf2 and the word map
    rand,      \* what gen_random_bytes returned to Mnemonic::new in this run
    built,     \* the phrase Mnemonic::new joined from its words (line 76)
    mn,        \* the Mnemonic value the program holds, or NoMnemonic
    hexes      \* the strings to_entropy_hex returned for mn, oldest first

vars == << op, arg, ret, calls, rand, built, mn, hexes >>

(***************************************************************************)
(* Bounds of the model.                                                    *)
(***************************************************************************)
\* gen_random_bytes returns one of NumSamples byte strings per length, or fails
NumSamples == 1
\* single bits flipped: the first MaxFlip bits of the stream, the bits next
\* to the entropy / checksum border and every checksum bit
MaxFlip == 12
\* word positions at which a word is replaced or a separator is changed
MaxPos == 2
\* calls of to_entropy_hex on one Mnemonic
MaxHexCalls == 2

\* bits of a word index (mnemonic.rs reads and writes 11 bits per word)
WordBits == 11

(***************************************************************************)
(* Results.                                                                *)
(***************************************************************************)
Ok(v) == [tag |-> "Ok", val |-> v]
Err(kind) == [tag |-> "Err", val |-> kind]
Panic(msg) == [tag |-> "Panic", val |-> msg]

NoCalls == [sha256 |-> 0, pbkdf2 |-> 0, word_map |-> 0]

(***************************************************************************)
(* crypto::sha256: SHA-256 (FIPS 180-4) of a message of at most 55 bytes,  *)
(* which pads to one block.  Every message hashed here is an entropy of    *)
(* 16 to 32 bytes.  32-bit words are pairs of 16-bit halves.               *)
(***************************************************************************)
SHA256_K ==
    << <<17034, 12184>>, <<28983, 17553>>, <<46528, 64463>>, <<59829, 56229>>, <<14678, 49755>>,
       <<23025, 4593>>, <<37439, 33444>>, <<43804, 24277>>, <<55303, 43672>>, <<4739, 23297>>,
       <<9265, 34238>>, <<21772, 32195>>, <<29374, 23924>>, <<32990, 45566>>, <<39900, 1703>>,
       <<49563, 61812>>, <<58523, 27073>>, <<61374, 18310>>, <<4033, 40390>>, <<9228, 41420>>,
       <<11753, 11375>>, <<19060, 33962>>, <<23728, 43484>>, <<30457, 35034>>, <<38974, 20818>>,
       <<43057, 50797>>, <<45059, 10184>>, <<48985, 32711>>, <<50912, 3059>>, <<54695, 37191>>,
       <<1738, 25425>>, <<5161, 10599>>, <<10167, 2693>>, <<11803, 8504>>, <<19756, 28156>>,
       <<21304, 3347>>, <<25866, 29524>>, <<30314, 2747>>, <<33218, 51502>>, <<37490, 11397>>,
       <<41663, 59553>>, <<43034, 26187>>, <<49739, 35696>>, <<51052, 20899>>, <<53650, 59417>>,
       <<54937, 1572>>, <<62478, 13701>>, <<4202, 41072>>, <<6564, 49430>>, <<7735, 27656>>,
       <<10056, 30540>>, <<13488, 48309>>, <<14620, 3251>>, <<20184, 43594>>, <<23452, 51791>>,
       <<26670, 28659>>, <<29839, 33518>>, <<30885, 25455>>, <<33992, 30740>>, <<36039, 520>>,
       <<37054, 65530>>, <<42064, 27883>>, <<48889, 41975>>, <<50801, 30962>> >>

SHA256_H0 ==
    << <<27145, 58983>>, <<47975, 44677>>, <<15470, 62322>>, <<42319, 62778>>, <<20750, 21119>>,
       <<39685, 26764>>, <<8067, 55723>>, <<23520, 52505>> >>

XorNibble ==
    << 0, 1, 2, 3, 4, 5, 6, 7, 8, 9, 10, 11, 12, 13, 14, 15, 1, 0, 3, 2, 5, 4, 7, 6, 9, 8, 11, 10,
       13, 12, 15, 14, 2, 3, 0, 1, 6, 7, 4, 5, 10, 11, 8, 9, 14, 15, 12, 13, 3, 2, 1, 0, 7, 6, 5,
       4, 11, 10, 9, 8, 15, 14, 13, 12, 4, 5, 6, 7, 0, 1, 2, 3, 12, 13, 14, 15, 8, 9, 10, 11, 5, 4,
       7, 6, 1, 0, 3, 2, 13, 12, 15, 14, 9, 8, 11, 10, 6, 7, 4, 5, 2, 3, 0, 1, 14, 15, 12, 13, 10,
       11, 8, 9, 7, 6, 5, 4, 3, 2, 1, 0, 15, 14, 13, 12, 11, 10, 9, 8, 8, 9, 10, 11, 12, 13, 14,
       15, 0, 1, 2, 3, 4, 5, 6, 7, 9, 8, 11, 10, 13, 12, 15, 14, 1, 0, 3, 2, 5, 4, 7, 6, 10, 11, 8,
       9, 14, 15, 12, 13, 2, 3, 0, 1, 6, 7, 4, 5, 11, 10, 9, 8, 15, 14, 13, 12, 3, 2, 1, 0, 7, 6,
       5, 4, 12, 13, 14, 15, 8, 9, 10, 11, 4, 5, 6, 7, 0, 1, 2, 3, 13, 12, 15, 14, 9, 8, 11, 10, 5,
       4, 7, 6, 1, 0, 3, 2, 14, 15, 12, 13, 10, 11, 8, 9, 6, 7, 4, 5, 2, 3, 0, 1, 15, 14, 13, 12,
       11, 10, 9, 8, 7, 6, 5, 4, 3, 2, 1, 0 >>

AndNibble ==
    << 0, 0, 0, 0, 0, 0, 0, 0, 0, 0, 0, 0, 0, 0, 0, 0, 0, 1, 0, 1, 0, 1, 0, 1, 0, 1, 0, 1, 0, 1, 0,
       1, 0, 0, 2, 2, 0, 0, 2, 2, 0, 0, 2, 2, 0, 0, 2, 2, 0, 1, 2, 3, 0, 1, 2, 3, 0, 1, 2, 3, 0, 1,
       2, 3, 0, 0, 0, 0, 4, 4, 4, 4, 0, 0, 0, 0, 4, 4, 4, 4, 0, 1, 0, 1, 4, 5, 4, 5, 0, 1, 0, 1, 4,
       5, 4, 5, 0, 0, 2, 2, 4, 4, 6, 6, 0, 0, 2, 2, 4, 4, 6, 6, 0, 1, 2, 3, 4, 5, 6, 7, 0, 1, 2, 3,
       4, 5, 6, 7, 0, 0, 0, 0, 0, 0, 0, 0, 8, 8, 8, 8, 8, 8, 8, 8, 0, 1, 0, 1, 0, 1, 0, 1, 8, 9, 8,
       9, 8, 9, 8, 9, 0, 0, 2, 2, 0, 0, 2, 2, 8, 8, 10, 10, 8, 8, 10, 10, 0, 1, 2, 3, 0, 1, 2, 3,
       8, 9, 10, 11, 8, 9, 10, 11, 0, 0, 0, 0, 4, 4, 4, 4, 8, 8, 8, 8, 12, 12, 12, 12, 0, 1, 0, 1,
       4, 5, 4, 5, 8, 9, 8, 9, 12, 13, 12, 13, 0, 0, 2, 2, 4, 4, 6, 6, 8, 8, 10, 10, 12, 12, 14,
       14, 0, 1, 2, 3, 4, 5, 6, 7, 8, 9, 10, 11, 12, 13, 14, 15 >>

Nibbles16(T, a, b) ==
      T[(a % 16) * 16 + (b % 16) + 1]
    + 16 * T[((a \div 16) % 16) * 16 + ((b \div 16) % 16) + 1]
    + 256 * T[((a \div 256) % 16) * 16 + ((b \div 256) % 16) + 1]
    + 4096 * T[(a \div 4096) * 16 + (b \div 4096) + 1]

Xor16(a, b) == Nibbles16(XorNibble, a, b)
And16(a, b) == Nibbles16(AndNibble, a, b)

Xor32(x, y) == << Xor16(x[1], y[1]), Xor16(x[2], y[2]) >>
And32(x, y) == << And16(x[1], y[1]), And16(x[2], y[2]) >>

Add32(x, y) ==
    LET lo == x[2] + y[2]
        hi == x[1] + y[1] + (lo \div 65536)
    IN  << hi % 65536, lo % 65536 >>

Rotr32(x, n) ==
    IF n >= 16
    THEN << (x[2] \div (2 ^ (n - 16))) + (x[1] % (2 ^ (n - 16))) * (2 ^ (32 - n)),
            (x[1] \div (2 ^ (n - 16))) + (x[2] % (2 ^ (n - 16))) * (2 ^ (32 - n)) >>
    ELSE << (x[1] \div (2 ^ n)) + (x[2] % (2 ^ n)) * (2 ^ (16 - n)),
            (x[2] \div (2 ^ n)) + (x[1] % (2 ^ n)) * (2 ^ (16 - n)) >>

\* n < 16
Shr32(x, n) ==
    << x[1] \div (2 ^ n), (x[2] \div (2 ^ n)) + (x[1] % (2 ^ n)) * (2 ^ (16 - n)) >>

Ch(e, f, g) == Xor32(g, And32(e, Xor32(f, g)))
Maj(a, b, c) == Xor32(And32(a, b), And32(c, Xor32(a, b)))
BigSigma0(x) == Xor32(Xor32(Rotr32(x, 2), Rotr32(x, 13)), Rotr32(x, 22))
BigSigma1(x) == Xor32(Xor32(Rotr32(x, 6), Rotr32(x, 11)), Rotr32(x, 25))
SmallSigma0(x) == Xor32(Xor32(Rotr32(x, 7), Rotr32(x, 18)), Shr32(x, 3))
SmallSigma1(x) == Xor32(Xor32(Rotr32(x, 17), Rotr32(x, 19)), Shr32(x, 10))

\* the padded block: the message, 0x80, zeros, the bit length in 64 bits
ShaPad(msg) ==
    [i \in 1..64 |->
        IF i <= Len(msg) THEN msg[i]
        ELSE IF i = Len(msg) + 1 THEN 128
        ELSE IF i = 63 THEN (8 * Len(msg)) \div 256
        ELSE IF i = 64 THEN (8 * Len(msg)) % 256
        ELSE 0]

ShaBlock(msg) ==
    LET p == ShaPad(msg)
    IN  [t \in 1..16 |-> << p[4*t - 3] * 256 + p[4*t - 2], p[4*t - 1] * 256 + p[4*t] >>]

\* the message schedule extended from Len(w) words to `upto` words
RECURSIVE ShaSchedule(_, _)
ShaSchedule(w, upto) ==
    IF Len(w) >= upto THEN w
    ELSE IF upto - Len(w) > 1
    THEN LET half == ShaSchedule(w, Len(w) + (upto - Len(w)) \div 2)
         IN  IF Len(half) > 0 THEN ShaSchedule(half, upto) ELSE half
    ELSE LET t == Len(w) + 1
             x == Add32(Add32(SmallSigma1(w[t - 2]), w[t - 7]),
                        Add32(SmallSigma0(w[t - 15]), w[t - 16]))
         IN  IF x[1] >= 0 THEN Append(w, x) ELSE w

ShaRound(s, k, w) ==
    LET t1 == Add32(Add32(Add32(s[8], BigSigma1(s[5])), Add32(Ch(s[5], s[6], s[7]), k)), w)
        t2 == Add32(BigSigma0(s[1]), Maj(s[1], s[2], s[3]))
    IN  << Add32(t1, t2), s[1], s[2], s[3], Add32(s[4], t1), s[5], s[6], s[7] >>

\* rounds from..to applied to the working variables s
RECURSIVE ShaRounds(_, _, _, _)
ShaRounds(s, w, from, to) ==
    IF from = to
    THEN ShaRound(s, SHA256_K[from], w[from])
    ELSE LET mid == (from + to) \div 2
             half == ShaRounds(s, w, from, mid)
         IN  IF half[1][1] >= 0 THEN ShaRounds(half, w, mid + 1, to) ELSE half

sha256(msg) ==
    LET w == ShaSchedule(ShaBlock(msg), 64)
        s == ShaRounds(SHA256_H0, w, 1, 64)
        h == [i \in 1..8 |-> Add32(SHA256_H0[i], s[i])]
    IN  [i \in 1..32 |->
            LET x == h[(i + 3) \div 4]
                half == IF ((i - 1) % 4) < 2 THEN x[1] ELSE x[2]
            IN  IF (i - 1) % 2 = 0 THEN half \div 256 ELSE half % 256]

(***************************************************************************)
(* crypto::pbkdf2 is kept symbolic: the seed is the pair of its inputs.    *)
(* crypto::gen_random_bytes(n) fails or returns n bytes; the model draws   *)
(* the bytes from a family of NumSamples byte strings per length.          *)
(***************************************************************************)
\* a lazily defined function over 1..n as a sequence whose elements are
\* computed once
Materialize(f, n) == SubSeq(f, 1, n)

pbkdf2(input, salt) == << "pbkdf2", input, salt >>

SampleBytes(n, k) == Materialize([i \in 1..n |-> ((k + 1) * i + 65 * k) % 256], n)

\* outcome 0 is the failure, outcome k > 0 the k-th byte string
gen_random_bytes(n, outcome) ==
    IF outcome = 0 THEN Err("RandomnessUnavailable") ELSE Ok(SampleBytes(n, outcome))

(***************************************************************************)
(* KeyType: the key sizes, named by their word length.                     *)
(***************************************************************************)
KeyTypes == {12, 15, 18, 21, 24}
word_length(key_type) == key_type
entropy_bits(key_type) == 32 * (key_type \div 3)
checksum_bits(key_type) == entropy_bits(key_type) \div 32

(***************************************************************************)
(* Strings and the word list.                                              *)
(***************************************************************************)
Space   == << "blank", 32 >>
Tab     == << "blank", 9 >>
Newline == << "blank", 10 >>

Languages == {"English"}
Passwords == {"", "TREZOR"}

\* Language::get_wordlist(lang)[n]
word_list(lang, n) == << lang, n >>

Some(n) == [tag |-> "Some", val |-> n]
None == [tag |-> "None", val |-> 0]

\* Language::get_wordmap(lang).get(word): the word is one item long and is
\* the lang's n-th word, or it is not in the map
word_map_get(lang, word) ==
    IF Len(word) = 1 /\ word[1][1] = lang /\ word[1][2] \in 0..(2 ^ WordBits - 1)
    THEN Some(word[1][2])
    ELSE None

\* words.join(" ")
join(words, sep) ==
    IF Len(words) = 0 THEN << >>
    ELSE [i \in 1..(2 * Len(words) - 1) |->
            IF i % 2 = 1 THEN words[(i + 1) \div 2] ELSE sep]

\* m.split(" "): the pieces of m between the items equal to sep, empty
\* pieces included; one piece more than there are separators
split(m, sep) ==
    LET n == Len(m)
        seps == {i \in 1..n : m[i] = sep}
        before == Materialize([i \in 1..(n + 1) |-> Cardinality({j \in seps : j < i})], n + 1)
        pieces == Cardinality(seps) + 1
        \* the position of the k-th separator; 0 and n + 1 bound the string
        cut(k) == IF k = 0 THEN 0
                  ELSE IF k = pieces THEN n + 1
                  ELSE CHOOSE i \in seps : before[i] = k - 1
    IN  Materialize([k \in 1..pieces |-> SubSeq(m, cut(k - 1) + 1, cut(k) - 1)], pieces)

\* KeyType::for_mnemonic: the key type of a phrase by the number of its
\* whitespace-separated words
for_mnemonic(m) ==
    LET n == Cardinality({i \in 1..Len(m) : m[i][1] # "blank"})
    IN  IF n \in KeyTypes THEN Ok(n) ELSE Err("InvalidWordCount")

(***************************************************************************)
(* Bits: util::bit_from_u16_as_u11, BitVec and BitReader.                  *)
(***************************************************************************)
\* bit i of the 11-bit value n, bit 0 the most significant
bit_from_u16_as_u11(n, i) == (n \div (2 ^ (10 - i))) % 2

\* BitVec::to_bytes: eight bits to a byte, most significant first, the
\* last byte padded with zero bits
to_bytes(bits) ==
    LET bit(j) == IF j <= Len(bits) THEN bits[j] ELSE 0
        n == (Len(bits) + 7) \div 8
    IN  Materialize([k \in 1..n |->
              128 * bit(8*k - 7) + 64 * bit(8*k - 6) + 32 * bit(8*k - 5) + 16 * bit(8*k - 4)
            + 8 * bit(8*k - 3) + 4 * bit(8*k - 2) + 2 * bit(8*k - 1) + bit(8*k)], n)

\* BitVec::from_bytes(bytes).into_iter().take(n)
from_bytes_take(bytes, n) ==
    LET len == IF n < 8 * Len(bytes) THEN n ELSE 8 * Len(bytes)
    IN  Materialize([j \in 1..len |-> (bytes[(j + 7) \div 8] \div (2 ^ (7 - ((j - 1) % 8)))) % 2],
                    len)

\* bits.into_iter().skip(s).take(n)
skip_take(bits, s, n) ==
    SubSeq(bits, s + 1, IF s + n < Len(bits) THEN s + n ELSE Len(bits))

\* BitReader::read_u16(bit_count) at bit position pos of bytes: the next
\* bit_count bits, most significant first, or an error past the end
read_u16(bytes, pos, bit_count) ==
    IF pos + bit_count > 8 * Len(bytes)
    THEN Err("NotEnoughData")
    ELSE LET byte(k) == IF k <= Len(bytes) THEN bytes[k] ELSE 0
             first == pos \div 8 + 1
             three == 65536 * byte(first) + 256 * byte(first + 1) + byte(first + 2)
         IN  Ok((three \div (2 ^ (24 - (pos % 8) - bit_count))) % (2 ^ bit_count))

\* hex::encode: two digits for a byte, the high one first; a digit is
\* written as its value 0..15
hex_encode(bytes) ==
    Materialize([i \in 1..(2 * Len(bytes)) |->
                    IF i % 2 = 1 THEN bytes[(i + 1) \div 2] \div 16 ELSE bytes[i \div 2] % 16],
                2 * Len(bytes))

(***************************************************************************)
(* Mnemonic (src/src/mnemonic.rs).  Every function returns what the Rust   *)
(* function returns, as ret, with the collaborator calls it made, as       *)
(* calls.                                                                  *)
(***************************************************************************)
NoMnemonic == [string |-> << >>, seed |-> << >>, lang |-> ""]
NoString == << << "none", 0 >> >>
Returned(v) == [tag |-> "Returned", val |-> v]

\* lookups, were the phrase split at every run of blanks (split_whitespace)
lookups_whitespace(m, lang) ==
    LET words == SelectSeq(m, LAMBDA item : item[1] # "blank")
    IN  Materialize([i \in 1..Len(words) |-> word_map_get(lang, << words[i] >>)], Len(words))

\* lines 158-162: the word map's answer for every word of the phrase
lookups(m, lang) ==
    LET words == split(m, Space)
    IN  Materialize([i \in 1..Len(words) |-> word_map_get(lang, words[i])], Len(words))

\* first_miss, were only the first word checked
first_miss_first_only(found) ==
    IF Len(found) > 0 /\ found[1].tag = "None" THEN 1 ELSE 0

\* lines 159-162: the first word the loop returns InvalidWord at, 0 if none
first_miss(found) ==
    LET misses == {i \in 1..Len(found) : found[i].tag = "None"}
    IN  IF misses = {} THEN 0 ELSE CHOOSE i \in misses : \A j \in misses : i <= j

\* pushed_bits, were the bits of a word pushed least significant first
pushed_bits_lsb_first(found) ==
    Materialize([j \in 1..(WordBits * Len(found)) |->
                    bit_from_u16_as_u11(found[(j - 1) \div WordBits + 1].val,
                                        WordBits - 1 - ((j - 1) % WordBits))],
                WordBits * Len(found))

\* pushed_bits, were the loop over the bits one short (0..10)
pushed_bits_ten(found) ==
    Materialize([j \in 1..((WordBits - 1) * Len(found)) |->
                    bit_from_u16_as_u11(found[(j - 1) \div (WordBits - 1) + 1].val,
                                        (j - 1) % (WordBits - 1))],
                (WordBits - 1) * Len(found))

\* lines 163-166: the bits pushed for the words found
pushed_bits(found) ==
    Materialize([j \in 1..(WordBits * Len(found)) |->
                    bit_from_u16_as_u11(found[(j - 1) \div WordBits + 1].val,
                                        (j - 1) % WordBits)],
                WordBits * Len(found))

\* lines 169-170
checksum_to_validate(to_validate, e_bits, c_bits) ==
    skip_take(to_validate, e_bits, c_bits)

\* lines 173-174
entropy_to_validate(to_validate, e_bits) ==
    skip_take(to_validate, 0, e_bits)

\* new_checksum, were the bits taken from the second byte of the hash
new_checksum_skew(hash, c_bits) == from_bytes_take(SubSeq(hash, 2, 32), c_bits)

\* lines 181-185
new_checksum(hash, c_bits) == from_bytes_take(hash, c_bits)

\* checksum_differs, were only the sizes compared
checksum_differs_len(recomputed, to_validate) == ~(Len(recomputed) = Len(to_validate))

\* line 187
checksum_differs(recomputed, to_validate) == ~(recomputed = to_validate)

\* lines 187-191: the comparison of the two checksums and the result
compare(recomputed, checksum, entropy, key_type, hashed) ==
    IF Len(recomputed) # checksum_bits(key_type)
    THEN [ret |-> Panic("invalid new checksum size"), calls |-> hashed]
    ELSE IF checksum_differs(recomputed, checksum)
    THEN [ret |-> Err("InvalidChecksum"), calls |-> hashed]
    ELSE [ret |-> Ok(entropy), calls |-> hashed]

\* lines 177-186: the entropy is hashed and its checksum recomputed
verify(checksum, entropy, key_type, looked) ==
    compare(new_checksum(sha256(entropy), checksum_bits(key_type)), checksum, entropy,
            key_type, [looked EXCEPT !.sha256 = 1])

\* lines 171-177: the two size assertions, and the entropy as bytes
check_sizes(checksum, bits, key_type, looked) ==
    IF Len(checksum) # checksum_bits(key_type)
    THEN [ret |-> Panic("invalid checksum size"), calls |-> looked]
    ELSE IF Len(bits) # entropy_bits(key_type)
    THEN [ret |-> Panic("invalid entropy size"), calls |-> looked]
    ELSE verify(checksum, to_bytes(bits), key_type, looked)

\* lines 169-175: the bit stream is cut into entropy and checksum
cut_bits(to_validate, key_type, looked) ==
    check_sizes(checksum_to_validate(to_validate, entropy_bits(key_type),
                                     checksum_bits(key_type)),
                entropy_to_validate(to_validate, entropy_bits(key_type)),
                key_type, looked)

\* lines 158-167: the loop over the words, given the word map's answers
decode_found(found, key_type) ==
    IF first_miss(found) # 0
    THEN [ret |-> Err("InvalidWord"), calls |-> [NoCalls EXCEPT !.word_map = first_miss(found)]]
    ELSE cut_bits(pushed_bits(found), key_type, [NoCalls EXCEPT !.word_map = Len(found)])

\* lines 154-192: to_entropy once the key type is known
decode_words(m, lang, key_type) == decode_found(lookups(m, lang), key_type)

\* decode_as, were the words looked up before the word count is checked
decode_as_lookup_first(m, lang, key_type) ==
    IF first_miss(lookups(m, lang)) # 0
    THEN decode_found(lookups(m, lang), 0)
    ELSE IF key_type.tag = "Err"
    THEN [ret |-> key_type, calls |-> NoCalls]
    ELSE decode_words(m, lang, key_type.val)

\* lines 150-152: the result of KeyType::for_mnemonic decides
decode_as(m, lang, key_type) ==
    IF key_type.tag = "Err"
    THEN [ret |-> key_type, calls |-> NoCalls]
    ELSE decode_words(m, lang, key_type.val)

\* lines 146-192
to_entropy(m, lang) == decode_as(m, lang, for_mnemonic(m))

\* line 125: Result::and(Ok(()))
and_unit(e) == [ret |-> IF e.ret.tag = "Ok" THEN Ok(<< >>) ELSE e.ret, calls |-> e.calls]

\* lines 123-126
validate(m, lang) == and_unit(to_entropy(m, lang))

\* lines 210-216
generate_seed(entropy, password) == pbkdf2(entropy, "mnemonic" \o password)

\* construct, were the seed derived before the validation is looked at
construct_eager(v, m, lang, password) ==
    IF v.ret.tag # "Ok"
    THEN [ret |-> v.ret, calls |-> [v.calls EXCEPT !.pbkdf2 = @ + 1]]
    ELSE [ret |-> Ok([string |-> m, seed |-> generate_seed(m, password), lang |-> lang]),
          calls |-> [v.calls EXCEPT !.pbkdf2 = @ + 1]]

\* lines 100-102: try! on the validation, then the Mnemonic
construct(v, m, lang, password) ==
    IF v.ret.tag # "Ok"
    THEN v
    ELSE [ret |-> Ok([string |-> m, seed |-> generate_seed(m, password), lang |-> lang]),
          calls |-> [v.calls EXCEPT !.pbkdf2 = @ + 1]]

\* lines 97-103
from_string(m, lang, password) == construct(validate(m, lang), m, lang, password)

\* combined, were the hash not appended
combined_entropy_only(entropy) == entropy

\* lines 65-66
combined(entropy) == entropy \o Materialize(sha256(entropy), 32)

\* lines 68-72: what the reader returns for each of the num_words reads
read_words(bytes, num_words) ==
    Materialize([i \in 1..num_words |-> read_u16(bytes, WordBits * (i - 1), WordBits)],
                num_words)

\* lines 70-76: the phrase, or the panic of an unwrap or of an index out of
\* the word list
join_words(reads, lang) ==
    IF \E i \in 1..Len(reads) : reads[i].tag = "Err"
    THEN Panic("unwrap on an Err value")
    ELSE IF \E i \in 1..Len(reads) : reads[i].val >= 2 ^ WordBits
    THEN Panic("index out of bounds")
    ELSE Ok(Materialize(join([i \in 1..Len(reads) |-> word_list(lang, reads[i].val)], Space),
                        2 * Len(reads) - 1))

\* lines 54-76: the phrase Mnemonic::new builds from the entropy
new_string(key_type, lang, entropy) ==
    join_words(read_words(combined(entropy), word_length(key_type)), lang)

\* line 78: the result of from_string is the result of new
new_result(m, string) ==
    [ret |-> m.ret, calls |-> [m.calls EXCEPT !.sha256 = @ + 1], built |-> string]

\* lines 76-78
new_from(string, lang, password) ==
    IF string.tag = "Panic"
    THEN [ret |-> string, calls |-> [NoCalls EXCEPT !.sha256 = 1], built |-> NoString]
    ELSE new_result(from_string(string.val, lang, password), string.val)

\* lines 43-79; random is what gen_random_bytes(entropy_bits / 8) returned
new(key_type, lang, password, random) ==
    IF random.tag = "Err"
    THEN [ret |-> random, calls |-> NoCalls, built |-> NoString]
    ELSE new_from(new_string(key_type, lang, random.val), lang, password)

\* lines 204-207: the unwrap and the encoding
unwrap_hex(e) ==
    IF e.ret.tag # "Ok"
    THEN [ret |-> Panic("unwrap on an Err value"), calls |-> e.calls]
    ELSE [ret |-> Returned(hex_encode(e.ret.val)), calls |-> e.calls]

\* to_entropy_hex, were validate called in place of to_entropy
to_entropy_hex_validate(self) == unwrap_hex(validate(self.string, self.lang))

\* lines 202-208
to_entropy_hex(self) == unwrap_hex(to_entropy(self.string, self.lang))

(***************************************************************************)
(* The phrases handed to to_entropy, validate and from_string: the phrase  *)
(* a Mnemonic::new built, changed in one place.                            *)
(***************************************************************************)
BaseWords(base) == Materialize([i \in 1..((Len(base) + 1) \div 2) |-> base[2 * i - 1]],
                               (Len(base) + 1) \div 2)

\* the first n words of the phrase repeated
Cycle(words, n) == Materialize([i \in 1..n |-> words[((i - 1) % Len(words)) + 1]], n)

Joined(words) == Materialize(join(words, Space), IF Len(words) = 0 THEN 0 ELSE 2 * Len(words) - 1)

\* bit p (from 0) of the stream of word indices flipped
FlipBit(words, p) ==
    LET w == p \div WordBits + 1
        n == words[w][2]
        weight == 2 ^ (WordBits - 1 - (p % WordBits))
        flipped == IF bit_from_u16_as_u11(n, p % WordBits) = 1 THEN n - weight ELSE n + weight
    IN  [words EXCEPT ![w] = << words[w][1], flipped >>]

BlankKinds == {"double_space", "tab", "newline", "leading_space", "trailing_space",
               "trailing_newline"}

Variant(base, v) ==
    LET words == BaseWords(base)
        wc == Len(words)
    IN  CASE v.kind = "same" -> base
          [] v.kind = "double_space" ->
                SubSeq(base, 1, 2 * v.pos) \o << Space >> \o SubSeq(base, 2 * v.pos + 1, Len(base))
          [] v.kind = "tab" -> [base EXCEPT ![2 * v.pos] = Tab]
          [] v.kind = "newline" -> [base EXCEPT ![2 * v.pos] = Newline]
          [] v.kind = "leading_space" -> << Space >> \o base
          [] v.kind = "trailing_space" -> base \o << Space >>
          [] v.kind = "trailing_newline" -> base \o << Newline >>
          [] v.kind = "unlisted" -> [base EXCEPT ![2 * v.pos - 1] = << "unlisted", v.pos >>]
          [] v.kind = "other_word" ->
                [base EXCEPT ![2 * v.pos - 1] = << @[1], (@[2] + 1) % (2 ^ WordBits) >>]
          [] v.kind = "count" -> Joined(Cycle(words, v.pos))
          [] v.kind = "count_unlisted" ->
                Joined([Cycle(words, v.pos) EXCEPT ![1] = << "unlisted", 0 >>])
          [] v.kind = "flip" -> Joined(FlipBit(words, v.pos))

SepPositions(wc) == {p \in 1..MaxPos : p < wc} \cup {wc - 1}
WordPositions(wc) == {p \in 1..MaxPos : p <= wc} \cup {wc}
WordCounts(wc) == {0, 1, wc - 3, wc - 1, wc + 1, wc + 3}

Variants(wc) ==
         { [kind |-> "same", pos |-> 0] }
    \cup { [kind |-> k, pos |-> p] : k \in {"double_space", "tab", "newline"},
                                     p \in SepPositions(wc) }
    \cup { [kind |-> k, pos |-> 0] : k \in {"leading_space", "trailing_space",
                                            "trailing_newline"} }
    \cup { [kind |-> k, pos |-> p] : k \in {"unlisted", "other_word"}, p \in WordPositions(wc) }
    \cup { [kind |-> "count", pos |-> n] : n \in WordCounts(wc) }
    \cup { [kind |-> "count_unlisted", pos |-> n] : n \in WordCounts(wc) \ {0} }

FlipPositions(key_type) ==
         { p \in 0..(MaxFlip - 1) : p < entropy_bits(key_type) }
    \cup { entropy_bits(key_type) - 2, entropy_bits(key_type) - 1 }
    \cup { entropy_bits(key_type) + c : c \in 0..(checksum_bits(key_type) - 1) }

Flips(key_type) == { [kind |-> "flip", pos |-> p] : p \in FlipPositions(key_type) }

(***************************************************************************)
(* The program: one Mnemonic::new, then calls of the other functions on    *)
(* the phrase it built.                                                    *)
(***************************************************************************)
NoVariant == [kind |-> "none", pos |-> 0]
NoArg == [key_type |-> 0, lang |-> "", password |-> "", string |-> NoString,
          variant |-> NoVariant]

Init ==
    /\ op = "none"
    /\ arg = NoArg
    /\ ret = Returned(<< >>)
    /\ calls = NoCalls
    /\ rand = Err("none")
    /\ built = NoString
    /\ mn = NoMnemonic
    /\ hexes = << >>

\* what a call leaves behind
Returns(r) == ret' = r.ret /\ calls' = r.calls
Holds(r) == mn' = IF r.ret.tag = "Ok" THEN r.ret.val ELSE NoMnemonic

NewReturns(r) == Returns(r) /\ Holds(r) /\ built' = r.built

New(key_type, lang, password, random) ==
    /\ op = "none"
    /\ NewReturns(new(key_type, lang, password, random))
    /\ op' = "new"
    /\ arg' = [NoArg EXCEPT !.key_type = key_type, !.lang = lang, !.password = password]
    /\ rand' = random
    /\ hexes' = << >>

\* the phrase of a call: the built phrase as the variant v changes it
CallArg(v, password) ==
    [arg EXCEPT !.string = Variant(built, v), !.password = password, !.variant = v]

ToEntropyOf(a) ==
    /\ arg' = a
    /\ Returns(to_entropy(a.string, a.lang))

ToEntropyCall(v) ==
    /\ op = "new"
    /\ built # NoString
    /\ ToEntropyOf(CallArg(v, ""))
    /\ op' = "to_entropy"
    /\ UNCHANGED << rand, built, mn, hexes >>

ToEntropy(v) == v.kind # "flip" /\ ToEntropyCall(v)

ToEntropyFlipped(v) == v.kind = "flip" /\ ToEntropyCall(v)

ValidateOf(a) ==
    /\ arg' = a
    /\ Returns(validate(a.string, a.lang))

Validate(v) ==
    /\ op = "new"
    /\ built # NoString
    /\ ValidateOf(CallArg(v, ""))
    /\ op' = "validate"
    /\ UNCHANGED << rand, built, mn, hexes >>

FromStringReturns(r) == Returns(r) /\ Holds(r)

FromStringOf(a) ==
    /\ arg' = a
    /\ FromStringReturns(from_string(a.string, a.lang, a.password))

FromString(v, password) ==
    /\ op = "new"
    /\ built # NoString
    /\ FromStringOf(CallArg(v, password))
    /\ op' = "from_string"
    /\ hexes' = << >>
    /\ UNCHANGED << rand, built >>

ToEntropyHexReturns(r) == Returns(r) /\ hexes' = Append(hexes, r.ret)

ToEntropyHex ==
    /\ op \in {"new", "from_string", "to_entropy_hex"}
    /\ mn # NoMnemonic
    /\ Len(hexes) < MaxHexCalls
    /\ ToEntropyHexReturns(to_entropy_hex(mn))
    /\ op' = "to_entropy_hex"
    /\ UNCHANGED << arg, rand, built, mn >>

NewAny ==
    \E key_type \in KeyTypes, lang \in Languages, password \in Passwords :
        \E outcome \in 0..NumSamples :
            New(key_type, lang, password, gen_random_bytes(entropy_bits(key_type) \div 8, outcome))

Next ==
    \/ NewAny
    \/ \E v \in Variants(arg.key_type) : ToEntropy(v)
    \/ \E v \in Variants(arg.key_type) : Validate(v)
    \/ \E v \in Variants(arg.key_type), password \in Passwords : FromString(v, password)
    \/ ToEntropyHex

Spec == Init /\ [][Next]_vars

\* single bit flips of the built phrase
NextFlip ==
    \/ NewAny
    \/ \E v \in Flips(arg.key_type) : ToEntropyFlipped(v)

SpecFlip == Init /\ [][NextFlip]_vars

(***************************************************************************)
(* What the properties speak of, stated apart from the functions above.    *)
(***************************************************************************)
IsOk(r, v) == r.tag = "Ok" /\ r.val = v
IsErr(r, kind) == r.tag = "Err" /\ r.val = kind
SameResult(a, b) == a.tag = b.tag /\ a.val = b.val

Listed(item, lang) == item[1] = lang /\ item[2] \in 0..(2 ^ WordBits - 1)

\* the number of whitespace-separated words of a string
NumWords(m) == Cardinality({i \in 1..Len(m) : m[i][1] # "blank"})

\* words joined by single spaces and nothing else
SpaceJoined(m) ==
    /\ Len(m) % 2 = 1
    /\ \A i \in 1..Len(m) : IF i % 2 = 0 THEN m[i] = Space ELSE m[i][1] # "blank"

\* a phrase: listed words joined by single spaces, of a valid word count
Phrase(m, lang) ==
    /\ SpaceJoined(m)
    /\ NumWords(m) \in KeyTypes
    /\ \A i \in 1..Len(m) : i % 2 = 1 => Listed(m[i], lang)

\* bit j (from 0) of the stream of the 11-bit indices of a phrase
StreamBit(m, j) == (m[2 * (j \div 11) + 1][2] \div (2 ^ (10 - (j % 11)))) % 2

\* byte k (from 1) of the stream
StreamByte(m, k) ==
      128 * StreamBit(m, 8*k - 8) + 64 * StreamBit(m, 8*k - 7) + 32 * StreamBit(m, 8*k - 6)
    + 16 * StreamBit(m, 8*k - 5) + 8 * StreamBit(m, 8*k - 4) + 4 * StreamBit(m, 8*k - 3)
    + 2 * StreamBit(m, 8*k - 2) + StreamBit(m, 8*k - 1)

EntropyBits(m) == 32 * (NumWords(m) \div 3)
ChecksumBits(m) == NumWords(m) \div 3

\* the first entropy_bits of the stream, as bytes
StreamEntropy(m) == Materialize([k \in 1..(EntropyBits(m) \div 8) |-> StreamByte(m, k)],
                                EntropyBits(m) \div 8)

\* bit c (from 0) of a digest
DigestBit(digest, c) == (digest[c \div 8 + 1] \div (2 ^ (7 - (c % 8)))) % 2

\* the checksum bits of the stream are the leading bits of the digest
ChecksumIs(m, digest) ==
    \A c \in 0..(ChecksumBits(m) - 1) : StreamBit(m, EntropyBits(m) + c) = DigestBit(digest, c)

ChecksumHolds(m) == ChecksumIs(m, sha256(StreamEntropy(m)))

\* the bytes with bit p (from 0) flipped
FlippedBytes(bytes, p) ==
    [bytes EXCEPT ![p \div 8 + 1] =
        IF (@ \div (2 ^ (7 - (p % 8)))) % 2 = 1
        THEN @ - 2 ^ (7 - (p % 8)) ELSE @ + 2 ^ (7 - (p % 8))]

\* two hex digits per byte, the high one first
HexDigits(bytes, hex) ==
    /\ Len(hex) = 2 * Len(bytes)
    /\ \A k \in 1..Len(bytes) : 16 * hex[2 * k - 1] + hex[2 * k] = bytes[k]
    /\ \A i \in 1..Len(hex) : hex[i] \in 0..15

Decoding == op \in {"to_entropy", "validate", "from_string"}

(***************************************************************************)
(* C1  Round trip: whenever Mnemonic::new drew an entropy, of any of the   *)
(* five sizes, the phrase it built from entropy ++ sha256(entropy) has     *)
(* word_length words joined by single spaces and to_entropy decodes it,    *)
(* under the same language, to Ok(entropy), byte for byte.                 *)
(***************************************************************************)
C1_RoundTrip ==
    (op = "new" /\ rand.tag = "Ok") =>
        /\ Phrase(built, arg.lang)
        /\ NumWords(built) = word_length(arg.key_type)
        /\ Len(rand.val) = entropy_bits(arg.key_type) \div 8
        /\ IsOk(to_entropy(built, arg.lang).ret, rand.val)

C1_Witness ==
    /\ op = "new" /\ rand.tag = "Ok" /\ arg.key_type = 24 /\ Len(rand.val) = 32
    /\ built # NoString

(***************************************************************************)
(* C2  Checksum verification: for a phrase (valid word count, every word   *)
(* listed) with bit stream B, to_entropy returns Ok(E), E the first        *)
(* entropy_bits of B, exactly when the next checksum_bits of B are the     *)
(* leading bits of sha256(E); otherwise it returns Err(InvalidChecksum).   *)
(***************************************************************************)
C2_ChecksumVerification ==
    (op = "to_entropy" /\ Phrase(arg.string, arg.lang)) =>
        IF ChecksumHolds(arg.string)
        THEN IsOk(ret, StreamEntropy(arg.string))
        ELSE IsErr(ret, "InvalidChecksum")

\* a phrase whose checksum bits fit and one whose do not
C2_Witness ==
    /\ op = "to_entropy" /\ Phrase(arg.string, arg.lang)
    /\ arg.variant.kind = "other_word" /\ arg.variant.pos = 1
    /\ IsErr(ret, "InvalidChecksum")

(***************************************************************************)
(* C3  from_string fails exactly when to_entropy fails on the same phrase  *)
(* and language, with the same error, and then pbkdf2 was not called and   *)
(* no Mnemonic is held; when to_entropy succeeds it returns the Mnemonic   *)
(* of the input phrase, the input language and the seed                    *)
(* generate_seed(phrase bytes, passphrase).                                *)
(***************************************************************************)
C3_Decoded(e) ==
    /\ e.tag = "Err" =>
        /\ SameResult(ret, e)
        /\ calls.pbkdf2 = 0
        /\ mn = NoMnemonic
    /\ e.tag = "Ok" =>
        /\ ret.tag = "Ok"
        /\ ret.val.string = arg.string
        /\ ret.val.lang = arg.lang
        /\ ret.val.seed = pbkdf2(arg.string, "mnemonic" \o arg.password)
        /\ calls.pbkdf2 = 1
        /\ mn = ret.val
    /\ e.tag \in {"Ok", "Err"}

C3_FromString ==
    op = "from_string" => C3_Decoded(to_entropy(arg.string, arg.lang).ret)

C3_Witness ==
    /\ op = "from_string" /\ IsErr(ret, "InvalidChecksum")
    /\ arg.password = "TREZOR" /\ calls.pbkdf2 = 0

(***************************************************************************)
(* C4  Mnemonic::new fails only if gen_random_bytes fails: when it         *)
(* succeeds, for every key type, language and passphrase, the 11-bit reads *)
(* stay within entropy ++ sha256(entropy), every index read is a word list *)
(* index, the self-validation passes and new returns Ok(Mnemonic) with     *)
(* exactly word_length words.                                              *)
(***************************************************************************)
C4_Reads(reads) ==
    \A i \in 1..Len(reads) : reads[i].tag = "Ok" /\ reads[i].val \in 0..(2 ^ WordBits - 1)

C4_NewFailsOnlyOnRandom ==
    op = "new" =>
        IF rand.tag = "Ok"
        THEN /\ ret.tag = "Ok"
             /\ NumWords(ret.val.string) = word_length(arg.key_type)
             /\ ret.val.string = built
             /\ C4_Reads(read_words(combined(rand.val), word_length(arg.key_type)))
        ELSE SameResult(ret, rand) /\ ret.tag = "Err"

C4_Witness ==
    /\ op = "new" /\ rand.tag = "Ok" /\ ret.tag = "Ok"
    /\ arg.key_type = 24 /\ arg.password = "TREZOR"

(***************************************************************************)
(* C5  Word count: to_entropy, validate and from_string reject a phrase    *)
(* whose number of words is not 12, 15, 18, 21 or 24 with the word-count   *)
(* error, also when it holds unlisted words, and before any word map       *)
(* lookup and any sha256.                                                  *)
(***************************************************************************)
C5_WordCount ==
    (Decoding /\ NumWords(arg.string) \notin KeyTypes) =>
        /\ IsErr(ret, "InvalidWordCount")
        /\ calls.word_map = 0
        /\ calls.sha256 = 0

\* thirteen words, one of them unlisted
C5_Witness ==
    /\ op = "to_entropy" /\ NumWords(arg.string) = 13
    /\ arg.variant.kind = "count_unlisted"
    /\ IsErr(ret, "InvalidWordCount")

(***************************************************************************)
(* C6  Unknown word: a phrase of a valid word count with a word that is    *)
(* not in the language's word map is rejected by to_entropy with           *)
(* InvalidWord, wherever the word stands; no entropy is returned and       *)
(* sha256 is not called.                                                   *)
(***************************************************************************)
C6_UnknownWord ==
    ( /\ op = "to_entropy"
      /\ SpaceJoined(arg.string)
      /\ NumWords(arg.string) \in KeyTypes
      /\ \E i \in 1..Len(arg.string) : i % 2 = 1 /\ ~Listed(arg.string[i], arg.lang) ) =>
        /\ IsErr(ret, "InvalidWord")
        /\ calls.sha256 = 0

\* the unlisted word is the last one
C6_Witness ==
    /\ op = "to_entropy" /\ arg.variant.kind = "unlisted"
    /\ arg.variant.pos = arg.key_type /\ arg.key_type = 24
    /\ IsErr(ret, "InvalidWord")

(***************************************************************************)
(* C7  Checksum sensitivity, as claimed: a valid phrase with any single    *)
(* bit of its index stream flipped is rejected by to_entropy with          *)
(* InvalidChecksum or InvalidWord.                                         *)
(***************************************************************************)
C7_FlipRejected ==
    (op = "to_entropy" /\ arg.variant.kind = "flip") =>
        (IsErr(ret, "InvalidChecksum") \/ IsErr(ret, "InvalidWord"))

(***************************************************************************)
(* C7  as amended: a flipped checksum bit is always rejected with          *)
(* InvalidChecksum; a flipped entropy bit is rejected with InvalidChecksum *)
(* unless the leading checksum_bits of the sha256 of the flipped entropy   *)
(* equal the checksum bits of the phrase, and then the flipped phrase is   *)
(* accepted as Ok(flipped entropy).  InvalidWord never results.            *)
(***************************************************************************)
C7_FlipDetectedUpToChecksum ==
    (op = "to_entropy" /\ arg.variant.kind = "flip") =>
        IF arg.variant.pos >= entropy_bits(arg.key_type)
        THEN IsErr(ret, "InvalidChecksum")
        ELSE IF ChecksumIs(built, sha256(FlippedBytes(rand.val, arg.variant.pos)))
        THEN IsOk(ret, FlippedBytes(rand.val, arg.variant.pos))
        ELSE IsErr(ret, "InvalidChecksum")

\* a flipped entropy bit that the checksum does not detect
C7_Witness ==
    /\ op = "to_entropy" /\ arg.variant.kind = "flip"
    /\ arg.variant.pos < entropy_bits(arg.key_type)
    /\ ret.tag = "Ok" /\ ret.val # rand.val

(***************************************************************************)
(* C8  Whitespace, as claimed: a valid phrase written with several spaces, *)
(* a tab or a newline between two words, or with leading or trailing       *)
(* whitespace, is decoded by to_entropy like its single-space-joined form. *)
(***************************************************************************)
C8_AnyWhitespace ==
    (op = "to_entropy" /\ arg.variant.kind \in BlankKinds) =>
        SameResult(ret, to_entropy(built, arg.lang).ret)

(***************************************************************************)
(* C8  as amended: to_entropy splits on the single space only.  The        *)
(* single-space-joined form of a valid phrase is decoded; every other      *)
(* whitespace form of it is rejected with InvalidWord or the word-count    *)
(* error and is never decoded.                                             *)
(***************************************************************************)
C8_SingleSpaceOnly ==
    op = "to_entropy" =>
        /\ arg.variant.kind \in BlankKinds =>
              (IsErr(ret, "InvalidWord") \/ IsErr(ret, "InvalidWordCount"))
        /\ arg.variant.kind = "same" => IsOk(ret, rand.val)

C8_Witness ==
    /\ op = "to_entropy" /\ arg.variant.kind = "tab"
    /\ NumWords(arg.string) = arg.key_type
    /\ IsErr(ret, "InvalidWord")

(***************************************************************************)
(* C9  No panic in decoding: to_entropy, validate and from_string return   *)
(* Ok or a structured error on every input; when the word count and every  *)
(* word lookup pass, the packed stream has 11 * word_count = entropy_bits  *)
(* + checksum_bits bits, so the three size assertions hold.                *)
(***************************************************************************)
C9_Stream(bits, key_type) ==
    /\ Len(bits) = WordBits * word_length(key_type)
    /\ Len(bits) = entropy_bits(key_type) + checksum_bits(key_type)

C9_NoPanic ==
    Decoding =>
        /\ ret.tag \in {"Ok", "Err"}
        /\ (ret.tag = "Ok" \/ IsErr(ret, "InvalidChecksum")) =>
              C9_Stream(pushed_bits(lookups(arg.string, arg.lang)), NumWords(arg.string))

C9_Witness ==
    /\ op = "validate" /\ IsErr(ret, "InvalidChecksum")
    /\ NumWords(arg.string) = 15 /\ arg.variant.kind = "count"

(***************************************************************************)
(* C10  to_entropy_hex on a Mnemonic returned by new or from_string never  *)
(* panics, returns the same string at every call, and that string is the   *)
(* hex encoding of the entropy to_entropy yields for the phrase: for a     *)
(* Mnemonic built by new, of the entropy new drew.                         *)
(***************************************************************************)
C10_HexOf(e) == e.tag = "Ok" /\ HexDigits(e.val, ret.val)

C10_EntropyHex ==
    op = "to_entropy_hex" =>
        /\ ret.tag = "Returned"
        /\ \A i \in 1..Len(hexes) : SameResult(hexes[i], ret)
        /\ C10_HexOf(to_entropy(mn.string, mn.lang).ret)
        /\ mn.string = built => HexDigits(rand.val, ret.val)

C10_Witness ==
    /\ op = "to_entropy_hex" /\ Len(hexes) = MaxHexCalls
    /\ arg.variant.kind = "same" /\ ret.tag = "Returned" /\ Len(ret.val) = 64

====
